---------------------------- MODULE Spec2Model ----------------------------
(***************************************************************************)
(* Pinned staging-area pool of the PTX JNI stream layer                    *)
(* (drivers/ptx-jni/src/main/cpp/source/PTXStream.cpp).                    *)
(*                                                                         *)
(* Program state: the allocated-region list (head), the free queue         *)
(* (front, rear and its malloc'ed QueueNodes), the StagingAreaList         *)
(* structs, the pinned buffers handed out by cuMemAllocHost, the CUDA      *)
(* streams with the work issued on them and not yet executed, device       *)
(* memory, and the application thread's position.                          *)
(*                                                                         *)
(* Pointers are small integers, NULL is 0.  A freed struct keeps its last  *)
(* contents (alive = FALSE) and its address may be handed out again by     *)
(* malloc.  Pinned buffers are allocation identities: cuMemAllocHost       *)
(* always returns an identity not used before.                             *)
(***************************************************************************)
EXTENDS Integers, Sequences, FiniteSets, TLC

\* ------------------------------------------------------------ bounds
MaxRegions == 2
MaxBufs == 3
MaxLen == 2
MaxCalls == 4
StreamCalls == 3
TwoCalls == 2
MaxFailures == 1
\* the number of transfer calls made before a callback and a transfer interleave
RaceCalls == 2
\* the number of transfer calls where the bytes moved are followed
DataCalls == 3

NULL == 0
CUDA_SUCCESS == 0
\* two CUresult values other than CUDA_SUCCESS
ErrorResults == {1, 2}

Streams == {1, 2}
Addrs == {1, 2}
TypeSizes == {1, 2}
MaxNodes == MaxRegions + MaxFailures + 1
RegionIds == 1..MaxRegions
BufIds == 1..MaxBufs
NodeIds == 1..MaxNodes
Results == {CUDA_SUCCESS} \cup ErrorResults

\* buf[b].regrown, fifo, expect, last and torn are history variables: no operation
\* reads them.
VARIABLES
    head,      \* static StagingAreaList *head
    front,     \* static QueueNode *front
    rear,      \* static QueueNode *rear
    qnode,     \* heap of QueueNode structs: [element, next, alive]
    area,      \* heap of StagingAreaList structs: [next, staging_area, length, alive]
    buf,       \* pinned buffers: [state, frees, size, data, regrown]
    stream,    \* per stream: the issued work not yet executed by the device
    salive,    \* per stream: created and not destroyed
    dev,       \* device memory: per address a sequence of MaxLen bytes
    th,        \* the application thread: [pc, ...] (a blocking call in progress)
    ncalls,    \* number of transfer calls made so far
    nfail,     \* number of driver failures injected so far
    fifo,      \* history: regions enqueued and not yet dequeued, oldest first
    expect,    \* history: per address, the last pattern sent to it and by which stream
    last,      \* history: what the most recent step did
    torn,      \* history: cuDestroyStream has run
    rc         \* a callback and a transfer running step by step: pcs and locals

vars == <<head, front, rear, qnode, area, buf, stream, salive, dev, th,
          ncalls, nfail, fifo, expect, last, torn, rc>>

\* ------------------------------------------------------------ helpers
Zeros(n) == [i \in 1..n |-> 0]

\* the smallest element of a non-empty set of integers
Lowest(S) == CHOOSE x \in S : \A y \in S : x <= y

\* dst with its bytes [off+1 .. off+n] replaced by src[soff+1 .. soff+n]
Splice(dst, off, src, soff, n) ==
    [i \in 1..Len(dst) |->
        IF i > off /\ i <= off + n /\ (i - off + soff) <= Len(src)
        THEN src[i - off + soff] ELSE dst[i]]

\* ------------------------------------------------------------ malloc / free
\* malloc(sizeof(QueueNode)): some address not in use, here the lowest one
FreeNodes(q) == {n \in NodeIds : ~q[n].alive}

\* malloc(sizeof(StagingAreaList)): the lowest address never used, or any
\* address that was used and freed
FreshRegions(ar) == {r \in RegionIds : ~ar[r].alive /\ ar[r].staging_area = NULL}
FreedRegions(ar) == {r \in RegionIds : ~ar[r].alive /\ ar[r].staging_area # NULL}
MallocRegions(ar) ==
    FreedRegions(ar) \cup
    (IF FreshRegions(ar) = {} THEN {} ELSE {Lowest(FreshRegions(ar))})

FreshBufs(bf) == {b \in BufIds : bf[b].state = "none"}

\* ------------------------------------------------------------ driver
\* cuMemAllocHost(&p, size) returning CUDA_SUCCESS: a new pinned buffer
cuMemAllocHost(bf, b, size) ==
    [bf EXCEPT ![b] = [state |-> "live", frees |-> 0, size |-> size,
                       data |-> Zeros(size), regrown |-> FALSE]]

\* the status of cuMemFreeHost(p): r, as the driver is asked to report, for a
\* pinned buffer; an error for a pointer that is no pinned buffer (any more)
cuMemFreeHostResult(bf, b, r) ==
    IF b \in BufIds /\ bf[b].state = "live" THEN r
    ELSE IF r # CUDA_SUCCESS THEN r ELSE Lowest(ErrorResults)

\* cuMemFreeHost(p): the call is counted; the buffer is released on success
cuMemFreeHost(bf, b, r) ==
    IF b \notin BufIds THEN bf
    ELSE [bf EXCEPT ![b].frees = @ + 1,
                    ![b].state = IF cuMemFreeHostResult(bf, b, r) = CUDA_SUCCESS
                                 THEN "freed" ELSE @]

\* ------------------------------------------------------------ free queue
\* free(node): the memory of a freed node is not read again by these
\* operations, and its contents are no part of the state
NoNode == [element |-> NULL, next |-> NULL, alive |-> FALSE]
NewNode(region) == [element |-> region, next |-> NULL, alive |-> TRUE]

\* an enqueue that puts the region at the front of the queue
enqueue_at_front(f, r, q, region) ==
    LET n == Lowest(FreeNodes(q)) IN
    [front |-> n, rear |-> IF f = NULL THEN n ELSE r,
     qnode |-> [q EXCEPT ![n] = [NewNode(region) EXCEPT !.next = f]]]

\* an enqueue that does not link the new node behind rear
enqueue_unlinked(f, r, q, region) ==
    LET n == Lowest(FreeNodes(q)) IN
    IF f = NULL
    THEN [front |-> n, rear |-> n, qnode |-> [q EXCEPT ![n] = NewNode(region)]]
    ELSE [front |-> f, rear |-> n, qnode |-> [q EXCEPT ![n] = NewNode(region)]]

\* enqueue(region), lines 77-92; n is the address malloc returns
enqueue(f, r, q, region) ==
    LET n == Lowest(FreeNodes(q)) IN
    IF f = NULL
    THEN [front |-> n, rear |-> n, qnode |-> [q EXCEPT ![n] = NewNode(region)]]
    ELSE [front |-> f, rear |-> n,
          qnode |-> [[q EXCEPT ![n] = NewNode(region)] EXCEPT ![r].next = n]]

\* a dequeue that returns the first region and leaves its node in the queue
dequeue_and_keep(f, q) ==
    IF f = NULL
    THEN [region |-> NULL, front |-> f, qnode |-> q]
    ELSE [region |-> q[f].element, front |-> f, qnode |-> q]

\* dequeue(), lines 97-107
dequeue(f, q) ==
    IF f = NULL
    THEN [region |-> NULL, front |-> f, qnode |-> q]
    ELSE [region |-> q[f].element, front |-> q[f].next,
          qnode |-> [q EXCEPT ![f] = NoNode]]

\* free_queue(), lines 112-121: the loop, one node per iteration
RECURSIVE free_queue(_, _)
free_queue(f, q) ==
    IF f = NULL THEN [front |-> f, qnode |-> q]
    ELSE free_queue(q[f].next, [q EXCEPT ![f] = NoNode])

\* the regions in the queue, from front along next (at most k nodes, up to
\* a pointer that is no node)
RECURSIVE Walk(_, _, _)
Walk(f, q, k) ==
    IF f \notin NodeIds \/ k = 0 THEN <<>>
    ELSE <<q[f].element>> \o Walk(q[f].next, q, k - 1)

QueueSeq == Walk(front, qnode, MaxNodes)

\* the regions reachable from head along next (at most k structs)
RECURSIVE ListSet(_, _, _)
ListSet(h, ar, k) ==
    IF h = NULL \/ k = 0 THEN {}
    ELSE {h} \cup ListSet(ar[h].next, ar, k - 1)

Registry == ListSet(head, area, MaxRegions)

\* ------------------------------------------------------------ staging areas
\* history: buffer old was released by a grow that went on to succeed
Regrown(bf, old) == IF old \in BufIds THEN [bf EXCEPT ![old].regrown = TRUE] ELSE bf

NewArea(b, size) == [next |-> NULL, staging_area |-> b, length |-> size, alive |-> TRUE]

\* a check_or_init_staging_area that creates a region and never grows one
check_or_init_never_grow(size, list, ar, bf, newr, rFree, rAlloc) ==
    IF list = NULL /\ rAlloc = CUDA_SUCCESS
    THEN LET b == Lowest(FreshBufs(bf)) IN
         [list |-> newr,
          area |-> [ar EXCEPT ![newr] = NewArea(b, size)],
          buf |-> cuMemAllocHost(bf, b, size)]
    ELSE [list |-> list, area |-> ar, buf |-> bf]

\* a check_or_init_staging_area that records the requested size as the
\* region's length whenever it does not have to grow the region
check_or_init_shrinking(size, list, ar, bf, newr, rFree, rAlloc) ==
    IF list = NULL
    THEN IF rAlloc # CUDA_SUCCESS
         THEN [list |-> NULL, area |-> ar, buf |-> bf]
         ELSE LET b == Lowest(FreshBufs(bf)) IN
              [list |-> newr,
               area |-> [ar EXCEPT ![newr] = NewArea(b, size)],
               buf |-> cuMemAllocHost(bf, b, size)]
    ELSE IF ar[list].length < size
    THEN LET old == ar[list].staging_area
             bf1 == cuMemFreeHost(bf, old, rFree)
         IN  IF cuMemFreeHostResult(bf, old, rFree) # CUDA_SUCCESS \/ rAlloc # CUDA_SUCCESS
             THEN [list |-> NULL, area |-> ar, buf |-> bf1]
             ELSE LET b == Lowest(FreshBufs(bf1)) IN
                  [list |-> list,
                   area |-> [ar EXCEPT ![list].staging_area = b,
                                       ![list].length = size],
                   buf |-> Regrown(cuMemAllocHost(bf1, b, size), old)]
    ELSE [list |-> list, area |-> [ar EXCEPT ![list].length = size], buf |-> bf]

\* check_or_init_staging_area(size, list), lines 126-157.  newr is the address
\* malloc returns on the create path; rFree and rAlloc are the statuses the
\* driver returns for cuMemFreeHost and cuMemAllocHost.
check_or_init_staging_area(size, list, ar, bf, newr, rFree, rAlloc) ==
    IF list = NULL
    THEN IF rAlloc # CUDA_SUCCESS
         THEN [list |-> NULL, area |-> ar, buf |-> bf]
         ELSE LET b == Lowest(FreshBufs(bf)) IN
              [list |-> newr,
               area |-> [ar EXCEPT ![newr] = NewArea(b, size)],
               buf |-> cuMemAllocHost(bf, b, size)]
    ELSE IF ar[list].length < size
    THEN LET old == ar[list].staging_area
             bf1 == cuMemFreeHost(bf, old, rFree)
         IN  IF cuMemFreeHostResult(bf, old, rFree) # CUDA_SUCCESS
             THEN [list |-> NULL, area |-> ar, buf |-> bf1]
             ELSE IF rAlloc # CUDA_SUCCESS
             THEN [list |-> NULL, area |-> ar, buf |-> bf1]
             ELSE LET b == Lowest(FreshBufs(bf1)) IN
                  [list |-> list,
                   area |-> [ar EXCEPT ![list].staging_area = b,
                                       ![list].length = size],
                   buf |-> Regrown(cuMemAllocHost(bf1, b, size), old)]
    ELSE [list |-> list, area |-> ar, buf |-> bf]

\* get_first_free_staging_area(size), lines 166-169: what follows dequeue(),
\* d being what dequeue() returned and left of the queue
after_dequeue(size, h, d, ar, bf, newr, rFree, rAlloc) ==
    LET c == check_or_init_staging_area(size, d.region, ar, bf, newr, rFree, rAlloc)
    IN  [list |-> c.list,
         head |-> IF h = NULL THEN c.list ELSE h,
         front |-> d.front, qnode |-> d.qnode,
         area |-> c.area, buf |-> c.buf, dq |-> d.region]

\* get_first_free_staging_area(size), lines 162-170
get_first_free_staging_area(size, h, f, q, ar, bf, newr, rFree, rAlloc) ==
    after_dequeue(size, h, dequeue(f, q), ar, bf, newr, rFree, rAlloc)

\* which driver calls check_or_init_staging_area makes for (size, list)
FreeCalled(size, list, ar) == list # NULL /\ ar[list].length < size
AllocCalled(size, list, ar, bf, rFree) ==
    IF list = NULL THEN TRUE
    ELSE /\ ar[list].length < size
         /\ cuMemFreeHostResult(bf, ar[list].staging_area, rFree) = CUDA_SUCCESS

\* a teardown that releases the buffer of the first region and leaves head
\* where it was
free_staging_area_list_keep_head(h, ar, bf, rs, res) ==
    IF h = NULL \/ rs = <<>>
    THEN [head |-> h, area |-> ar, buf |-> bf, result |-> res]
    ELSE [head |-> h, area |-> ar,
          buf |-> cuMemFreeHost(bf, ar[h].staging_area, Head(rs)),
          result |-> cuMemFreeHostResult(bf, ar[h].staging_area, Head(rs))]

\* free_staging_area_list(), lines 183-196: the loop, one struct per iteration.
\* rs is the sequence of statuses the driver returns, res the value of the
\* local variable result so far.
RECURSIVE free_staging_area_list(_, _, _, _, _)
free_staging_area_list(h, ar, bf, rs, res) ==
    IF h = NULL \/ rs = <<>>
    THEN [head |-> h, area |-> ar, buf |-> bf, result |-> res]
    ELSE free_staging_area_list(
             ar[h].next,
             [ar EXCEPT ![h].alive = FALSE],
             cuMemFreeHost(bf, ar[h].staging_area, Head(rs)),
             Tail(rs),
             cuMemFreeHostResult(bf, ar[h].staging_area, Head(rs)))

\* the statuses cuMemFreeHost (line 186) returns during the loop of
\* free_staging_area_list, in order
RECURSIVE FreeStatuses(_, _, _, _)
FreeStatuses(h, ar, bf, rs) ==
    IF h = NULL \/ rs = <<>>
    THEN <<>>
    ELSE <<cuMemFreeHostResult(bf, ar[h].staging_area, Head(rs))>>
         \o FreeStatuses(ar[h].next, ar,
                         cuMemFreeHost(bf, ar[h].staging_area, Head(rs)), Tail(rs))

\* a drain that also passes the staging area of every queued region to
\* cuMemFreeHost
after_free_queue_releasing(h, f, r, q, ar, bf) ==
    LET fq == free_queue(f, q)
        queued == {x \in RegionIds : \E i \in 1..Len(Walk(f, q, MaxNodes)) :
                                         Walk(f, q, MaxNodes)[i] = x}
    IN  [head |-> h, front |-> fq.front, rear |-> r, qnode |-> fq.qnode, area |-> ar,
         buf |-> [b \in BufIds |->
                     IF \E x \in queued : ar[x].staging_area = b
                     THEN [bf[b] EXCEPT !.state = "freed", !.frees = @ + 1]
                     ELSE bf[b]]]

\* a teardown that leaves the free queue as it is
after_free_queue_skipped(h, f, r, q, ar, bf) ==
    [head |-> h, front |-> f, rear |-> r, qnode |-> q, area |-> ar, buf |-> bf]

\* the globals after the statement free_queue(), line 673: front and the nodes
\* are as the loop leaves them, nothing else is assigned
after_free_queue(h, f, r, q, ar, bf) ==
    LET fq == free_queue(f, q)
    IN  [head |-> h, front |-> fq.front, rear |-> r, qnode |-> fq.qnode,
         area |-> ar, buf |-> bf]

\* ------------------------------------------------------------ streams
\* one piece of work issued on a stream
Op(k, call, list, b, a, len) ==
    [k |-> k, call |-> call, list |-> list, buf |-> b, addr |-> a, len |-> len]

Pending(s, call, k) == \E i \in 1..Len(stream[s]) :
                           stream[s][i].call = call /\ stream[s][i].k = k

Fails(rset) == Cardinality({i \in DOMAIN rset : rset[i] # CUDA_SUCCESS})

\* JNI Get/SetByteArrayRegion(array, host_offset / n, length / n, buf), lines
\* 225, 404 and 430: start and len count bytes, the elements of a jbyteArray.
\* The array passed is a reinterpret_cast array of n-byte elements; for such
\* an array the JVM moves len elements of w bytes each, w = 1 (the width of
\* jbyte) or w = n (the width of the array's own elements), from byte start.
RegionStart(host_offset, n) == host_offset \div n
RegionBytes(length, n, w) == (length \div n) * w

\* what the most recent step did
NoLast ==
    [op |-> "init", call |-> 0, s |-> 0, list |-> NULL, dq |-> NULL,
     oldest |-> NULL, size |-> 0, qseq |-> <<>>, oldlen |-> 0, oldbuf |-> NULL,
     acqFail |-> FALSE, deref |-> FALSE, copy |-> FALSE, cb |-> FALSE,
     evdone |-> FALSE, array |-> <<>>, data |-> <<>>, addr |-> 0, ret |-> 0,
     status |-> 0, bracket |-> <<>>, failed |-> FALSE, again |-> FALSE,
     work |-> <<>>, other |-> <<>>]

Idle == [pc |-> "idle", call |-> 0, s |-> 0, list |-> NULL, sa |-> NULL, result |-> 0,
         addr |-> 0, len |-> 0, off |-> 0, n |-> 1, w |-> 1, copy |-> FALSE,
         array |-> <<>>, data |-> <<>>]

\* history of one acquisition, for last
Acquired(op, s, size, g) ==
    [NoLast EXCEPT !.op = op, !.call = ncalls + 1, !.s = s, !.list = g.list,
                   !.dq = g.dq, !.size = size, !.qseq = QueueSeq,
                   !.oldest = IF fifo = <<>> THEN NULL ELSE Head(fifo),
                   !.oldlen = IF g.dq = NULL THEN 0 ELSE area[g.dq].length,
                   !.oldbuf = IF g.dq = NULL THEN NULL ELSE area[g.dq].staging_area,
                   !.acqFail = (g.list = NULL)]

\* the bytes of pinned buffer b (nothing known of a pointer that is no buffer)
Bytes(bf, b) == IF b \in BufIds /\ bf[b].state # "none" THEN bf[b].data ELSE Zeros(MaxLen)

\* buffer b after the host wrote src[soff+1 .. soff+n] to its start
HostWrite(bf, b, src, soff, n) ==
    IF b \in BufIds /\ bf[b].state = "live"
    THEN [bf EXCEPT ![b].data = Splice(@, 0, src, soff, n)]
    ELSE bf

\* the inputs of one acquisition are those of the driver calls it makes for
\* the region dequeued
AcquireInputsFor(region, size, newr, rFree, rAlloc) ==
    /\ ~FreeCalled(size, region, area) => rFree = CUDA_SUCCESS
    /\ ~AllocCalled(size, region, area, buf, rFree) => rAlloc = CUDA_SUCCESS
    /\ IF region = NULL /\ rAlloc = CUDA_SUCCESS
       THEN newr \in MallocRegions(area) ELSE newr = NULL
    /\ (AllocCalled(size, region, area, buf, rFree) /\ rAlloc = CUDA_SUCCESS)
           => Cardinality(FreshBufs(buf)) >= 1

AcquireInputs(size, newr, rFree, rAlloc) ==
    AcquireInputsFor(dequeue(front, qnode).region, size, newr, rFree, rAlloc)

\* history of the data sent to device address a
Sent(ex, s, a, pat, clean) ==
    IF clean /\ ex[a].s \in {0, s}
    THEN [ex EXCEPT ![a] = [s |-> s, pat |-> pat]]
    ELSE [ex EXCEPT ![a] = [s |-> -1, pat |-> <<>>]]

\* the CUevent a call creates (record_events_create) and records on its
\* stream: beforeEvent is k = "evB", afterEvent is k = "evA"
Event(call, k) == [call |-> call, k |-> k]

\* wrapper_from_events(env, &beforeEvent, &afterEvent): the pair of events
\* handed back to the caller
wrapper_from_events(beforeEvent, afterEvent) == <<beforeEvent, afterEvent>>

\* the return statement of every transfer, lines 227, 248, 416 and 446: the
\* result of the driver calls has been logged and is not part of the value
TransferReturn(call, result) ==
    wrapper_from_events(Event(call, "evB"), Event(call, "evA"))

\* host-to-device work whose callback is issued ahead of the copy
HtoDWorkCallbackFirst(call, list, sa, a, len, rCopy, rCb) ==
    <<Op("evB", call, NULL, NULL, 0, 0)>>
    \o (IF rCb = CUDA_SUCCESS THEN <<Op("cb", call, list, NULL, 0, 0)>> ELSE <<>>)
    \o (IF rCopy = CUDA_SUCCESS THEN <<Op("copyHD", call, list, sa, a, len)>> ELSE <<>>)
    \o <<Op("evA", call, NULL, NULL, 0, 0)>>

\* the work a host-to-device transfer issues on its stream, lines 407-414
HtoDWork(call, list, sa, a, len, rCopy, rCb) ==
    <<Op("evB", call, NULL, NULL, 0, 0)>>
    \o (IF rCopy = CUDA_SUCCESS THEN <<Op("copyHD", call, list, sa, a, len)>> ELSE <<>>)
    \o <<Op("evA", call, NULL, NULL, 0, 0)>>
    \o (IF rCb = CUDA_SUCCESS THEN <<Op("cb", call, list, NULL, 0, 0)>> ELSE <<>>)

\* host-to-device work that ends with the after event: no callback
HtoDWorkNoCallback(call, list, sa, a, len, rCopy, rCb) ==
    <<Op("evB", call, NULL, NULL, 0, 0)>>
    \o (IF rCopy = CUDA_SUCCESS THEN <<Op("copyHD", call, list, sa, a, len)>> ELSE <<>>)
    \o <<Op("evA", call, NULL, NULL, 0, 0)>>

\* the work transferFromHostToDeviceAsync issues on its stream, lines 436-443:
\* record_event_begin, cuMemcpyHtoDAsync, record_event_end and
\* cuStreamAddCallback(set_to_unused)
HtoDWorkAsync(call, list, sa, a, len, rCopy, rCb) ==
    <<Op("evB", call, NULL, NULL, 0, 0)>>
    \o (IF rCopy = CUDA_SUCCESS THEN <<Op("copyHD", call, list, sa, a, len)>> ELSE <<>>)
    \o <<Op("evA", call, NULL, NULL, 0, 0)>>
    \o (IF rCb = CUDA_SUCCESS THEN <<Op("cb", call, list, NULL, 0, 0)>> ELSE <<>>)

\* the work entry point op issues
HtoDIssued(op, call, list, sa, a, len, rCopy, rCb) ==
    IF op = "htodAsync"
    THEN HtoDWorkAsync(call, list, sa, a, len, rCopy, rCb)
    ELSE HtoDWork(call, list, sa, a, len, rCopy, rCb)

\* the other host-to-device entry point
OtherMode(op) == IF op = "htodAsync" THEN "htodBlocking" ELSE "htodAsync"

\* ------------------------------------------------------------ transfers
\* a host-to-device transfer from the return of get_first_free_staging_area
\* (g) on, lines 404-416 and 430-445: the caller's bytes go to the staging
\* area, and the events, the copy and the callback are issued on the stream.
\* crash chooses the outcome of the undefined dereference of a NULL or freed
\* region.
HostToDeviceIssue(op, s, a, n, w, off, len, array, g, rFree, rAlloc, rCopy, rCb, crash) ==
    /\ LET ub == IF g.list = NULL THEN TRUE ELSE (g.dq # NULL /\ ~area[g.dq].alive)
           sa == IF g.list = NULL THEN NULL ELSE g.area[g.list].staging_area
       IN  /\ crash => (ub /\ rCopy = CUDA_SUCCESS /\ rCb = CUDA_SUCCESS)
           /\ head' = g.head /\ front' = g.front /\ qnode' = g.qnode
           /\ area' = g.area
           /\ fifo' = IF fifo = <<>> THEN fifo ELSE Tail(fifo)
           /\ IF crash
              THEN /\ th' = [Idle EXCEPT !.pc = "crashed"]
                   /\ buf' = g.buf
                   /\ last' = [Acquired(op, s, len, g) EXCEPT !.deref = (g.list = NULL)]
                   /\ UNCHANGED <<stream, expect>>
              ELSE /\ th' = th
                   /\ buf' = HostWrite(g.buf, sa, array, RegionStart(off, n),
                                       RegionBytes(len, n, w))
                   /\ stream' = [stream EXCEPT ![s] =
                                     @ \o HtoDIssued(op, ncalls + 1, g.list, sa, a, len, rCopy, rCb)]
                   /\ expect' = IF rCopy = CUDA_SUCCESS
                                THEN Sent(expect, s, a, SubSeq(array, off + 1, off + len), ~ub)
                                ELSE expect
                   /\ last' = [Acquired(op, s, len, g) EXCEPT
                                   !.deref = (g.list = NULL),
                                   !.copy = (rCopy = CUDA_SUCCESS),
                                   !.cb = (rCb = CUDA_SUCCESS),
                                   !.status = rCopy,
                                   !.bracket = TransferReturn(ncalls + 1, rCb),
                                   !.work = HtoDIssued(op, ncalls + 1, g.list, sa, a,
                                                       len, rCopy, rCb),
                                   !.other = HtoDIssued(OtherMode(op), ncalls + 1, g.list,
                                                        sa, a, len, rCopy, rCb)]
    /\ ncalls' = ncalls + 1
    /\ nfail' = nfail + Fails(<<rFree, rAlloc, rCopy, rCb>>)

\* transferFromHostToDeviceBlocking, lines 392-418.  array is the caller's
\* array, n the width of its elements, w the width the JVM moves.
transferFromHostToDeviceBlocking(s, a, n, w, off, len, array, newr, rFree, rAlloc, rCopy, rCb, crash) ==
    /\ th.pc = "idle" /\ salive[s] /\ ncalls < MaxCalls
    /\ AcquireInputs(len, newr, rFree, rAlloc)
    /\ nfail + Fails(<<rFree, rAlloc, rCopy, rCb>>) <= MaxFailures
    /\ HostToDeviceIssue("htodBlocking", s, a, n, w, off, len, array,
           get_first_free_staging_area(len, head, front, qnode, area, buf,
                                       newr, rFree, rAlloc),
           rFree, rAlloc, rCopy, rCb, crash)
    /\ UNCHANGED <<rear, salive, dev, torn, rc>>

\* transferFromHostToDeviceAsync, lines 420-447
transferFromHostToDeviceAsync(s, a, n, w, off, len, array, newr, rFree, rAlloc, rCopy, rCb, crash) ==
    /\ th.pc = "idle" /\ salive[s] /\ ncalls < MaxCalls
    /\ AcquireInputs(len, newr, rFree, rAlloc)
    /\ nfail + Fails(<<rFree, rAlloc, rCopy, rCb>>) <= MaxFailures
    /\ HostToDeviceIssue("htodAsync", s, a, n, w, off, len, array,
           get_first_free_staging_area(len, head, front, qnode, area, buf,
                                       newr, rFree, rAlloc),
           rFree, rAlloc, rCopy, rCb, crash)
    /\ UNCHANGED <<rear, salive, dev, torn, rc>>

\* the work a blocking device-to-host transfer issues, lines 215-221
DtoHWork(call, list, sa, a, len, rCopy) ==
    <<Op("evB", call, NULL, NULL, 0, 0)>>
    \o (IF rCopy = CUDA_SUCCESS THEN <<Op("copyDH", call, list, sa, a, len)>> ELSE <<>>)
    \o <<Op("evA", call, NULL, NULL, 0, 0)>>

\* lines 222-224: cuEventQuery(afterEvent) reports CUDA_SUCCESS, or
\* cuEventSynchronize(afterEvent) has returned
AfterEventComplete(s, call) == ~Pending(s, call, "evA")

\* transferFromDeviceToHostBlock, lines 209-221: up to the wait for afterEvent.
\* array is the caller's destination array.
transferFromDeviceToHostBlock(s, a, n, w, off, len, array, newr, rFree, rAlloc, rCopy, crash) ==
    /\ th.pc = "idle" /\ salive[s] /\ ncalls < MaxCalls
    /\ AcquireInputs(len, newr, rFree, rAlloc)
    /\ nfail + Fails(<<rFree, rAlloc, rCopy>>) <= MaxFailures
    /\ LET g == get_first_free_staging_area(len, head, front, qnode, area, buf,
                                            newr, rFree, rAlloc)
           ub == IF g.list = NULL THEN TRUE ELSE (g.dq # NULL /\ ~area[g.dq].alive)
           sa == IF g.list = NULL THEN NULL ELSE g.area[g.list].staging_area
       IN  /\ crash => (ub /\ rCopy = CUDA_SUCCESS)
           /\ head' = g.head /\ front' = g.front /\ qnode' = g.qnode
           /\ area' = g.area /\ buf' = g.buf
           /\ fifo' = IF fifo = <<>> THEN fifo ELSE Tail(fifo)
           /\ IF crash
              THEN /\ th' = [Idle EXCEPT !.pc = "crashed"]
                   /\ stream' = [stream EXCEPT ![s] =
                                     Append(@, Op("evB", ncalls + 1, NULL, NULL, 0, 0))]
                   /\ last' = [Acquired("dtohBlock", s, len, g) EXCEPT
                                   !.deref = (g.list = NULL)]
              ELSE /\ th' = [pc |-> "wait", call |-> ncalls + 1, s |-> s,
                             list |-> g.list, sa |-> sa, addr |-> a, len |-> len,
                             off |-> off, n |-> n, w |-> w, copy |-> (rCopy = CUDA_SUCCESS /\ ~ub),
                             result |-> rCopy,
                             array |-> array, data |-> <<>>]
                   /\ stream' = [stream EXCEPT ![s] =
                                     @ \o DtoHWork(ncalls + 1, g.list, sa, a, len, rCopy)]
                   /\ last' = [Acquired("dtohBlock", s, len, g) EXCEPT
                                   !.deref = (g.list = NULL),
                                   !.copy = (rCopy = CUDA_SUCCESS)]
    /\ ncalls' = ncalls + 1
    /\ nfail' = nfail + Fails(<<rFree, rAlloc, rCopy>>)
    /\ UNCHANGED <<rear, salive, dev, expect, torn, rc>>

\* native_array, line 232: the address GetPrimitiveArrayCritical returns for
\* the caller's array, memory of the JVM and no buffer of cuMemAllocHost
NativeArray == MaxBufs + 1

\* the work a non-blocking device-to-host transfer issues, lines 239-245: the
\* copy goes to native_array + host_offset
DtoHAsyncWork(call, off, a, len, rCopy) ==
    <<Op("evB", call, NULL, NULL, 0, 0)>>
    \o (IF rCopy = CUDA_SUCCESS
        THEN <<Op("copyDirect", call, NULL, NativeArray, a, len)>> ELSE <<>>)
    \o <<Op("evA", call, NULL, NULL, 0, 0)>>

\* a non-blocking device-to-host transfer that passes the staging area of the
\* first region to cuMemFreeHost
transferFromDeviceToHostAsyncFreesHead(s, a, off, len, rCopy) ==
    /\ th.pc = "idle" /\ salive[s] /\ ncalls < MaxCalls
    /\ nfail + Fails(<<rCopy>>) <= MaxFailures
    /\ stream' = [stream EXCEPT ![s] = @ \o DtoHAsyncWork(ncalls + 1, off, a, len, rCopy)]
    /\ buf' = IF head = NULL THEN buf
              ELSE cuMemFreeHost(buf, area[head].staging_area, CUDA_SUCCESS)
    /\ last' = [NoLast EXCEPT !.op = "dtohAsync", !.call = ncalls + 1, !.s = s,
                              !.size = len, !.addr = a, !.status = rCopy,
                              !.copy = (rCopy = CUDA_SUCCESS),
                              !.bracket = TransferReturn(ncalls + 1, CUDA_SUCCESS)]
    /\ ncalls' = ncalls + 1
    /\ nfail' = nfail + Fails(<<rCopy>>)
    /\ UNCHANGED <<head, front, rear, qnode, area, salive, dev, th, fifo, expect,
                   torn, rc>>

\* transferFromDeviceToHostAsync, lines 230-249: no staging region is
\* acquired; the copy is issued between the two events, native_array is passed
\* to cuMemFreeHost and the call returns
transferFromDeviceToHostAsync(s, a, off, len, rCopy) ==
    /\ th.pc = "idle" /\ salive[s] /\ ncalls < MaxCalls
    /\ nfail + Fails(<<rCopy>>) <= MaxFailures
    /\ stream' = [stream EXCEPT ![s] = @ \o DtoHAsyncWork(ncalls + 1, off, a, len, rCopy)]
    /\ buf' = cuMemFreeHost(buf, NativeArray, CUDA_SUCCESS)
    /\ last' = [NoLast EXCEPT !.op = "dtohAsync", !.call = ncalls + 1, !.s = s,
                              !.size = len, !.addr = a, !.status = rCopy,
                              !.copy = (rCopy = CUDA_SUCCESS),
                              !.bracket = TransferReturn(ncalls + 1,
                                  cuMemFreeHostResult(buf, NativeArray, CUDA_SUCCESS))]
    /\ ncalls' = ncalls + 1
    /\ nfail' = nfail + Fails(<<rCopy>>)
    /\ UNCHANGED <<head, front, rear, qnode, area, salive, dev, th, fifo, expect,
                   torn, rc>>

\* transferFromDeviceToHostBlock, lines 222-227: afterEvent is complete, the
\* staging area is copied into the caller's array and the region is enqueued
transferFromDeviceToHostBlockReturn ==
    /\ th.pc = "wait"
    /\ AfterEventComplete(th.s, th.call)
    /\ FreeNodes(qnode) # {}
    /\ LET e == enqueue(front, rear, qnode, th.list)
           out == Splice(th.array, RegionStart(th.off, th.n), Bytes(buf, th.sa), 0,
                         RegionBytes(th.len, th.n, th.w))
       IN  /\ front' = e.front /\ rear' = e.rear /\ qnode' = e.qnode
           /\ last' = [NoLast EXCEPT !.op = "dtohReturn", !.call = th.call, !.s = th.s,
                                     !.list = th.list, !.size = th.len, !.copy = th.copy,
                                     !.evdone = ~Pending(th.s, th.call, "evA"),
                                     !.array = SubSeq(out, th.off + 1, th.off + th.len),
                                     !.data = th.data, !.addr = th.addr,
                                     !.status = th.result,
                                     !.bracket = TransferReturn(th.call, th.result)]
    /\ fifo' = Append(fifo, th.list)
    /\ th' = Idle
    /\ UNCHANGED <<head, area, buf, stream, salive, dev, ncalls, nfail, expect, torn, rc>>

\* ------------------------------------------------------------ device
\* the device executes the oldest piece of work of stream s: an event record
\* or a copy between a pinned buffer and device memory
DeviceStep(s) ==
    /\ th.pc # "crashed"
    /\ stream[s] # <<>>
    /\ LET o == Head(stream[s]) IN
       /\ o.k # "cb"
       /\ dev' = IF o.k = "copyHD"
                 THEN [dev EXCEPT ![o.addr] = Splice(@, 0, Bytes(buf, o.buf), 0, o.len)]
                 ELSE dev
       /\ buf' = IF o.k = "copyDH" /\ o.buf \in BufIds /\ buf[o.buf].state = "live"
                 THEN [buf EXCEPT ![o.buf].data = Splice(@, 0, dev[o.addr], 0, o.len)]
                 ELSE buf
       /\ th' = IF o.k = "copyDH" /\ th.pc = "wait" /\ th.call = o.call
                THEN [th EXCEPT !.data = SubSeq(dev[o.addr], 1, o.len)]
                ELSE th
       /\ last' = [NoLast EXCEPT !.op = o.k, !.call = o.call, !.s = s, !.list = o.list]
    /\ stream' = [stream EXCEPT ![s] = Tail(@)]
    /\ UNCHANGED <<head, front, rear, qnode, area, salive, ncalls, nfail, fifo, expect, torn, rc>>

\* set_to_unused, lines 175-178: the stream callback, run by the driver when
\* the work issued before it on stream s has completed
set_to_unused(s) ==
    /\ th.pc # "crashed"
    /\ stream[s] # <<>>
    /\ Head(stream[s]).k = "cb"
    /\ FreeNodes(qnode) # {}
    /\ LET stagingList == Head(stream[s]).list
           e == enqueue(front, rear, qnode, stagingList)
       IN  /\ front' = e.front /\ rear' = e.rear /\ qnode' = e.qnode
           /\ fifo' = Append(fifo, stagingList)
           /\ last' = [NoLast EXCEPT !.op = "cb", !.call = Head(stream[s]).call,
                                     !.s = s, !.list = stagingList]
    /\ stream' = [stream EXCEPT ![s] = Tail(@)]
    /\ UNCHANGED <<head, area, buf, salive, dev, th, ncalls, nfail, expect, torn, rc>>

\* ------------------------------------------------------------ stream lifecycle
\* bitwise and of two non-negative integers (the & of line 675)
RECURSIVE BitAnd(_, _)
BitAnd(x, y) ==
    IF x = 0 \/ y = 0 THEN 0
    ELSE (x % 2) * (y % 2) + 2 * BitAnd(x \div 2, y \div 2)

\* Java_..._PTXStream_cuCreateStream, lines 648-658
cuCreateStream(s) ==
    /\ th.pc = "idle"
    /\ ~salive[s]
    /\ salive' = [salive EXCEPT ![s] = TRUE]
    /\ last' = [NoLast EXCEPT !.op = "create", !.s = s]
    /\ UNCHANGED <<head, front, rear, qnode, area, buf, stream, dev, th, ncalls,
                   nfail, fifo, expect, torn, rc>>

\* Java_..._PTXStream_cuDestroyStream, lines 665-676.  The caller destroys a
\* stream only when nothing issued on it is still to run.  rDestroy is the
\* status of cuStreamDestroy, rs the statuses of the cuMemFreeHost calls,
\* uninit the value the uninitialised local result of
\* free_staging_area_list happens to hold.
cuDestroyStream(s, rDestroy, rs, uninit) ==
    /\ th.pc = "idle"
    /\ salive[s]
    /\ stream[s] = <<>>
    /\ Len(rs) = Cardinality(Registry)
    /\ head # NULL => uninit = CUDA_SUCCESS
    /\ nfail + Fails(<<rDestroy>> \o rs) <= MaxFailures
    /\ LET fq == after_free_queue(head, front, rear, qnode, area, buf)
           fl == free_staging_area_list(fq.head, fq.area, fq.buf, rs, uninit)
       IN  /\ front' = fq.front /\ rear' = fq.rear /\ qnode' = fq.qnode
           /\ head' = fl.head /\ area' = fl.area /\ buf' = fl.buf
           /\ last' = [NoLast EXCEPT !.op = "destroy", !.s = s, !.qseq = QueueSeq,
                                     !.ret = BitAnd(rDestroy, fl.result),
                                     !.again = (torn /\ head = NULL /\ front = NULL),
                                     !.failed = Fails(<<rDestroy>> \o
                                         FreeStatuses(head, area, buf, rs)) > 0]
    /\ salive' = [salive EXCEPT ![s] = (rDestroy # CUDA_SUCCESS)]
    /\ fifo' = <<>>
    /\ nfail' = nfail + Fails(<<rDestroy>> \o rs)
    /\ torn' = TRUE
    /\ UNCHANGED <<stream, dev, th, ncalls, expect, rc>>

\* the work a kernel launch issues on its stream, lines 627-637
LaunchWorkEventsFirst(call, rLaunch) ==
    <<Op("evB", call, NULL, NULL, 0, 0), Op("evA", call, NULL, NULL, 0, 0)>>
    \o (IF rLaunch = CUDA_SUCCESS THEN <<Op("kernel", call, NULL, NULL, 0, 0)>> ELSE <<>>)

LaunchWork(call, rLaunch) ==
    <<Op("evB", call, NULL, NULL, 0, 0)>>
    \o (IF rLaunch = CUDA_SUCCESS THEN <<Op("kernel", call, NULL, NULL, 0, 0)>> ELSE <<>>)
    \o <<Op("evA", call, NULL, NULL, 0, 0)>>

\* Java_..._PTXStream_cuLaunchKernel, lines 594-641: the kernel is launched on
\* the stream between the two events; the pool is not used.  rLaunch is the
\* status of cuLaunchKernel.
cuLaunchKernel(s, rLaunch) ==
    /\ th.pc = "idle" /\ salive[s] /\ ncalls < MaxCalls
    /\ nfail + Fails(<<rLaunch>>) <= MaxFailures
    /\ stream' = [stream EXCEPT ![s] = @ \o LaunchWork(ncalls + 1, rLaunch)]
    /\ last' = [NoLast EXCEPT !.op = "launch", !.call = ncalls + 1, !.s = s,
                              !.status = rLaunch,
                              !.bracket = TransferReturn(ncalls + 1, rLaunch)]
    /\ ncalls' = ncalls + 1
    /\ nfail' = nfail + Fails(<<rLaunch>>)
    /\ UNCHANGED <<head, front, rear, qnode, area, buf, salive, dev, th, fifo,
                   expect, torn, rc>>

\* Java_..._PTXStream_cuStreamSynchronize, lines 683-690.  The driver call
\* returns CUDA_SUCCESS once everything issued on the stream, callbacks
\* included, has run; r is the status it returns.
cuStreamSynchronize(s, r) ==
    /\ th.pc = "idle" /\ salive[s]
    /\ r = CUDA_SUCCESS => stream[s] = <<>>
    /\ nfail + Fails(<<r>>) <= MaxFailures
    /\ last' = [NoLast EXCEPT !.op = "sync", !.s = s, !.ret = r]
    /\ nfail' = nfail + Fails(<<r>>)
    /\ UNCHANGED <<head, front, rear, qnode, area, buf, stream, salive, dev, th,
                   ncalls, fifo, expect, torn, rc>>

\* ------------------------------------------------------------ specification
\* no callback and no transfer is running step by step
NoRace == [on |-> FALSE, s |-> 0, cpc |-> "done", creg |-> NULL, cnode |-> NULL,
           apc |-> "done", areg |-> NULL, aold |-> NULL, q0 |-> <<>>, ub |-> FALSE]

NoArea == [next |-> NULL, staging_area |-> NULL, length |-> 0, alive |-> FALSE]
NoBuf == [state |-> "none", frees |-> 0, size |-> 0, data |-> <<>>, regrown |-> FALSE]

Init ==
    /\ head = NULL /\ front = NULL /\ rear = NULL
    /\ qnode = [n \in NodeIds |-> NoNode]
    /\ area = [r \in RegionIds |-> NoArea]
    /\ buf = [b \in BufIds |-> NoBuf]
    /\ stream = [s \in Streams |-> <<>>]
    /\ salive = [s \in Streams |-> FALSE]
    /\ dev = [a \in Addrs |-> Zeros(MaxLen)]
    /\ th = Idle
    /\ ncalls = 0 /\ nfail = 0
    /\ fifo = <<>>
    /\ expect = [a \in Addrs |-> [s |-> 0, pat |-> <<>>]]
    /\ last = NoLast
    /\ torn = FALSE
    /\ rc = NoRace

\* the transfers a caller can ask for: element width, offset and length in
\* bytes of a slice of an array of MaxLen bytes
Slices(Offs) == {x \in TypeSizes \X Offs \X (1..MaxLen) :
                    /\ x[2] % x[1] = 0 /\ x[3] % x[1] = 0
                    /\ x[2] + x[3] <= MaxLen}

\* the statuses of the driver calls named in K: those in f fail
Status(f, k) == IF k \in f THEN Lowest(ErrorResults) ELSE CUDA_SUCCESS
FailSets(K, on) ==
    {f \in SUBSET K : nfail + Cardinality(f) <= (IF on THEN MaxFailures ELSE nfail)
                        /\ (f = {} \/ on)}

\* the widths w the JVM may use for an array of n-byte elements
Widths(n, both) == IF both THEN {1, n} ELSE {1}

CanCall == th.pc = "idle" /\ ncalls < MaxCalls

HostToDevice(SS, AA, Arr, Offs, WW, on) ==
    /\ CanCall
    /\ \E s \in {z \in SS : salive[z]}, a \in AA, x \in Slices(Offs), array \in Arr,
          newr \in MallocRegions(area) \cup {NULL},
          f \in FailSets({"free", "alloc", "copy", "cb"}, on), crash \in BOOLEAN :
       \E w \in Widths(x[1], WW) :
        \/ transferFromHostToDeviceBlocking(s, a, x[1], w, x[2], x[3], array, newr,
               Status(f, "free"), Status(f, "alloc"), Status(f, "copy"),
               Status(f, "cb"), crash)
        \/ transferFromHostToDeviceAsync(s, a, x[1], w, x[2], x[3], array, newr,
               Status(f, "free"), Status(f, "alloc"), Status(f, "copy"),
               Status(f, "cb"), crash)

DeviceToHost(SS, AA, Offs, WW, on) ==
    /\ CanCall
    /\ \E s \in {z \in SS : salive[z]}, a \in AA, x \in Slices(Offs),
          newr \in MallocRegions(area) \cup {NULL},
          f \in FailSets({"free", "alloc", "copy"}, on), crash \in BOOLEAN :
       \E w \in Widths(x[1], WW) :
        transferFromDeviceToHostBlock(s, a, x[1], w, x[2], x[3], Zeros(MaxLen), newr,
               Status(f, "free"), Status(f, "alloc"), Status(f, "copy"), crash)

DeviceToHostAsync(SS, AA, XX, on) ==
    /\ CanCall
    /\ \E s \in {z \in SS : salive[z]}, a \in AA, x \in XX,
          f \in FailSets({"copy"}, on) :
        transferFromDeviceToHostAsync(s, a, x[2], x[3], Status(f, "copy"))

Lifecycle(SS, RR) ==
    /\ th.pc = "idle"
    /\ \E s \in SS :
        \/ cuCreateStream(s)
        \/ /\ salive[s] /\ stream[s] = <<>>
           /\ \E rDestroy \in RR, uninit \in RR :
                 \E rs \in [1..Cardinality(Registry) -> RR] :
                    cuDestroyStream(s, rDestroy, rs, uninit)

Device(SS) == \E s \in SS : DeviceStep(s) \/ set_to_unused(s)

\* one stream, every driver failure, arrays of zero bytes
PoolStreams == {1}
PoolArrays == {Zeros(MaxLen)}

\* the slices that cover an array of MaxLen bytes
WholeArrays == {x \in Slices({0}) : x[3] = MaxLen}

Next ==
    \/ HostToDevice(PoolStreams, {1}, PoolArrays, {0}, FALSE, TRUE)
    \/ DeviceToHost(PoolStreams, {1}, {0}, FALSE, TRUE)
    \/ DeviceToHostAsync(PoolStreams, {1}, WholeArrays, TRUE)
    \/ transferFromDeviceToHostBlockReturn
    \/ Lifecycle(PoolStreams, Results)
    \/ Device(PoolStreams)

Spec == Init /\ [][Next]_vars

\* one stream, no driver failure, arrays of bytes 1 and 2 with elements of
\* either width, the JVM moving elements of either width
DataArrays == [1..MaxLen -> {1, 2}]
DataOffs == 0..(MaxLen - 1)

DataHostToDevice ==
    ncalls < DataCalls /\ HostToDevice(PoolStreams, {1}, DataArrays, DataOffs, TRUE, FALSE)
DataDeviceToHost ==
    ncalls < DataCalls /\ DeviceToHost(PoolStreams, {1}, DataOffs, TRUE, FALSE)

NextData ==
    \/ DataHostToDevice
    \/ DataDeviceToHost
    \/ transferFromDeviceToHostBlockReturn
    \/ Lifecycle(PoolStreams, {CUDA_SUCCESS})
    \/ Device(PoolStreams)

SpecData == Init /\ [][NextData]_vars

\* one stream, every driver failure, kernel launches and cuStreamSynchronize
\* beside the transfers, StreamCalls calls
StreamHostToDevice ==
    ncalls < StreamCalls /\ HostToDevice(PoolStreams, {1}, PoolArrays, {0}, FALSE, TRUE)
StreamDeviceToHost ==
    ncalls < StreamCalls /\ DeviceToHost(PoolStreams, {1}, {0}, FALSE, TRUE)
StreamDeviceToHostAsync ==
    ncalls < StreamCalls /\ DeviceToHostAsync(PoolStreams, {1}, WholeArrays, TRUE)
LaunchKernel(SS, on) ==
    /\ CanCall /\ ncalls < StreamCalls
    /\ \E s \in {z \in SS : salive[z]}, f \in FailSets({"launch"}, on) :
          cuLaunchKernel(s, Status(f, "launch"))
Synchronize(SS, RR) ==
    \E s \in {z \in SS : salive[z]}, r \in RR : cuStreamSynchronize(s, r)

NextStream ==
    \/ StreamHostToDevice
    \/ StreamDeviceToHost
    \/ StreamDeviceToHostAsync
    \/ transferFromDeviceToHostBlockReturn
    \/ LaunchKernel(PoolStreams, TRUE)
    \/ Synchronize(PoolStreams, {CUDA_SUCCESS, Lowest(ErrorResults)})
    \/ Lifecycle(PoolStreams, Results)
    \/ Device(PoolStreams)

SpecStream == Init /\ [][NextStream]_vars

\* two streams over the one pool, no driver failure, TwoCalls transfers; a
\* stream is destroyed when nothing issued on it is still to run, whatever
\* the other stream is doing
TwoStreams == {1, 2}

TwoHostToDevice ==
    ncalls < TwoCalls /\ HostToDevice(TwoStreams, {1}, PoolArrays, {0}, FALSE, FALSE)
TwoDeviceToHost ==
    ncalls < TwoCalls /\ DeviceToHost(TwoStreams, {1}, {0}, FALSE, FALSE)

NextTwo ==
    \/ TwoHostToDevice
    \/ TwoDeviceToHost
    \/ transferFromDeviceToHostBlockReturn
    \/ Lifecycle(TwoStreams, {CUDA_SUCCESS})
    \/ Device(TwoStreams)

SpecTwo == Init /\ [][NextTwo]_vars

\* ------------------------------------------------------------ interleaving
\* set_to_unused runs on the driver's notification thread while
\* transferFromHostToDeviceAsync runs on the application thread: enqueue and
\* dequeue take one step per statement, each statement reading front and rear
\* anew.  No lock guards front, rear or the nodes.

\* the contents of memory malloc returned and nobody wrote yet
Indeterminate == -1
RawNode == [element |-> Indeterminate, next |-> Indeterminate, alive |-> TRUE]

ValidNode(p) == p \in NodeIds /\ qnode[p].alive

\* the callback heading stream s and a transfer on s are entered together
Enter(s) ==
    /\ ~rc.on /\ th.pc = "idle" /\ salive[s]
    /\ stream[s] # <<>> /\ Head(stream[s]).k = "cb"
    /\ QueueSeq # <<>> \/ MallocRegions(area) # {}
    /\ FreshBufs(buf) # {} /\ FreeNodes(qnode) # {}
    /\ rc' = [NoRace EXCEPT !.on = TRUE, !.s = s, !.cpc = "e78", !.apc = "d98",
                            !.creg = Head(stream[s]).list, !.q0 = QueueSeq]
    /\ UNCHANGED <<head, front, rear, qnode, area, buf, stream, salive, dev, th,
                   ncalls, nfail, fifo, expect, last, torn>>

Running == rc.on /\ th.pc # "crashed"

RaceFrame == UNCHANGED <<head, area, buf, salive, dev, ncalls, nfail, fifo,
                         expect, last, torn>>

\* set_to_unused returns: the callback leaves the stream
CallbackDone == stream' = [stream EXCEPT ![rc.s] = Tail(@)]

\* a write through pointer p of a node: into the node, or, p being NULL, a
\* freed node or no node at all, a crash or a write that is lost
WriteNode(p, field, v, crash) ==
    IF ValidNode(p)
    THEN /\ ~crash
         /\ qnode' = [qnode EXCEPT ![p] =
                          IF field = "next" THEN [@ EXCEPT !.next = v]
                          ELSE [@ EXCEPT !.element = v]]
         /\ th' = th
    ELSE /\ (p = NULL => crash)
         /\ qnode' = qnode
         /\ th' = IF crash THEN [Idle EXCEPT !.pc = "crashed"] ELSE th

\* enqueue, line 78: if (front == NULL)
enqueue78 ==
    /\ Running /\ rc.cpc = "e78"
    /\ rc' = [rc EXCEPT !.cpc = IF front = NULL THEN "e79" ELSE "e85"]
    /\ UNCHANGED <<front, rear, qnode, stream, th>> /\ RaceFrame

\* line 79: front = malloc(sizeof(QueueNode))
enqueue79 ==
    /\ Running /\ rc.cpc = "e79" /\ FreeNodes(qnode) # {}
    /\ LET n == Lowest(FreeNodes(qnode)) IN
       /\ front' = n
       /\ qnode' = [qnode EXCEPT ![n] = RawNode]
    /\ rc' = [rc EXCEPT !.cpc = "e80"]
    /\ UNCHANGED <<rear, stream, th>> /\ RaceFrame

\* line 80: front->next = NULL
enqueue80 ==
    /\ Running /\ rc.cpc = "e80"
    /\ \E crash \in BOOLEAN : WriteNode(front, "next", NULL, crash)
    /\ rc' = [rc EXCEPT !.cpc = "e81", !.ub = @ \/ ~ValidNode(front)]
    /\ UNCHANGED <<front, rear, stream>> /\ RaceFrame

\* line 81: front->element = region
enqueue81 ==
    /\ Running /\ rc.cpc = "e81"
    /\ \E crash \in BOOLEAN : WriteNode(front, "element", rc.creg, crash)
    /\ rc' = [rc EXCEPT !.cpc = "e83", !.ub = @ \/ ~ValidNode(front)]
    /\ UNCHANGED <<front, rear, stream>> /\ RaceFrame

\* line 83: rear = front
enqueue83 ==
    /\ Running /\ rc.cpc = "e83"
    /\ rear' = front
    /\ CallbackDone
    /\ rc' = [rc EXCEPT !.cpc = "done"]
    /\ UNCHANGED <<front, qnode, th>> /\ RaceFrame

\* lines 85-87: newRear = malloc(...); newRear->next = NULL;
\* newRear->element = region (the node is private to this thread)
enqueue85 ==
    /\ Running /\ rc.cpc = "e85" /\ FreeNodes(qnode) # {}
    /\ LET n == Lowest(FreeNodes(qnode)) IN
       /\ qnode' = [qnode EXCEPT ![n] = NewNode(rc.creg)]
       /\ rc' = [rc EXCEPT !.cpc = "e89", !.cnode = n]
    /\ UNCHANGED <<front, rear, stream, th>> /\ RaceFrame

\* line 89: rear->next = newRear
enqueue89 ==
    /\ Running /\ rc.cpc = "e89"
    /\ \E crash \in BOOLEAN : WriteNode(rear, "next", rc.cnode, crash)
    /\ rc' = [rc EXCEPT !.cpc = "e90", !.ub = @ \/ ~ValidNode(rear)]
    /\ UNCHANGED <<front, rear, stream>> /\ RaceFrame

\* line 90: rear = newRear
enqueue90 ==
    /\ Running /\ rc.cpc = "e90"
    /\ rear' = rc.cnode
    /\ CallbackDone
    /\ rc' = [rc EXCEPT !.cpc = "done"]
    /\ UNCHANGED <<front, qnode, th>> /\ RaceFrame

NotificationThread ==
    \/ enqueue78 \/ enqueue79 \/ enqueue80 \/ enqueue81 \/ enqueue83
    \/ enqueue85 \/ enqueue89 \/ enqueue90

\* dequeue, line 98: if (front == NULL) return NULL
dequeue98 ==
    /\ Running /\ rc.apc = "d98"
    /\ rc' = IF front = NULL THEN [rc EXCEPT !.apc = "a166", !.areg = NULL]
             ELSE [rc EXCEPT !.apc = "d101"]
    /\ UNCHANGED <<front, rear, qnode, stream, th>> /\ RaceFrame

\* line 101: region = front->element; an element nobody wrote yet reads as
\* any pointer
dequeue101 ==
    /\ Running /\ rc.apc = "d101"
    /\ IF ValidNode(front) /\ qnode[front].element # Indeterminate
       THEN rc' = [rc EXCEPT !.apc = "d102", !.areg = qnode[front].element]
       ELSE \E v \in RegionIds \cup {NULL} :
                rc' = [rc EXCEPT !.apc = "d102", !.areg = v, !.ub = TRUE]
    /\ UNCHANGED <<front, rear, qnode, stream, th>> /\ RaceFrame

\* line 102: oldFront = front
dequeue102 ==
    /\ Running /\ rc.apc = "d102"
    /\ rc' = [rc EXCEPT !.apc = "d103", !.aold = front]
    /\ UNCHANGED <<front, rear, qnode, stream, th>> /\ RaceFrame

\* line 103: front = front->next; a next nobody wrote yet reads as any pointer
dequeue103 ==
    /\ Running /\ rc.apc = "d103"
    /\ IF ValidNode(front) /\ qnode[front].next # Indeterminate
       THEN /\ front' = qnode[front].next
            /\ rc' = [rc EXCEPT !.apc = "d104"]
       ELSE \E v \in NodeIds \cup {NULL} :
                /\ front' = v
                /\ rc' = [rc EXCEPT !.apc = "d104", !.ub = TRUE]
    /\ UNCHANGED <<rear, qnode, stream, th>> /\ RaceFrame

\* line 104: free(oldFront)
dequeue104 ==
    /\ Running /\ rc.apc = "d104"
    /\ qnode' = IF rc.aold \in NodeIds THEN [qnode EXCEPT ![rc.aold] = NoNode]
                ELSE qnode
    /\ rc' = [rc EXCEPT !.apc = "a166"]
    /\ UNCHANGED <<front, rear, stream, th>> /\ RaceFrame

\* get_first_free_staging_area from line 166 on, and the rest of
\* transferFromHostToDeviceAsync: one byte of a byte array, every driver call
\* succeeding
async166 ==
    /\ Running /\ rc.apc = "a166"
    /\ \E newr \in MallocRegions(area) \cup {NULL}, crash \in BOOLEAN :
         /\ AcquireInputsFor(rc.areg, 1, newr, CUDA_SUCCESS, CUDA_SUCCESS)
         /\ HostToDeviceIssue("htodAsync", rc.s, 1, 1, 1, 0, 1, Zeros(MaxLen),
                after_dequeue(1, head, [region |-> rc.areg, front |-> front,
                                        qnode |-> qnode],
                              area, buf, newr, CUDA_SUCCESS, CUDA_SUCCESS),
                CUDA_SUCCESS, CUDA_SUCCESS, CUDA_SUCCESS, CUDA_SUCCESS, crash)
    /\ rc' = [rc EXCEPT !.apc = "done"]
    /\ UNCHANGED <<rear, salive, dev, torn>>

ApplicationThread ==
    \/ dequeue98 \/ dequeue101 \/ dequeue102 \/ dequeue103 \/ dequeue104
    \/ async166

\* what runs before the two threads meet: one stream, transfers of zero
\* bytes, no driver failure
SetupCreate == ~rc.on /\ cuCreateStream(1)
SetupTransfer ==
    /\ ~rc.on /\ ncalls < RaceCalls
    /\ HostToDevice(PoolStreams, {1}, PoolArrays, {0}, FALSE, FALSE)
SetupDevice == ~rc.on /\ Device(PoolStreams)

NextRace ==
    \/ SetupCreate
    \/ SetupTransfer
    \/ SetupDevice
    \/ Enter(1)
    \/ NotificationThread
    \/ ApplicationThread

SpecRace == Init /\ [][NextRace]_vars

\* ------------------------------------------------------------ observations
Acquisitions == {"htodBlocking", "htodAsync", "dtohBlock"}

\* the regions in the free queue
Queued == {QueueSeq[i] : i \in 1..Len(QueueSeq)} \ {NULL}

\* the calls whose issued work, or whose blocked caller, still refers to region r
HeldBy(r) ==
    UNION {{stream[s][i].call : i \in {j \in 1..Len(stream[s]) :
                                          stream[s][j].list = r}} : s \in Streams}
    \cup (IF th.pc = "wait" /\ th.list = r THEN {th.call} ELSE {})

InFlight == {r \in RegionIds : HeldBy(r) # {}}

\* C1: no double-use.  At no time do two calls in flight hold the same
\* region: a region handed out by get_first_free_staging_area is not handed
\* out again before set_to_unused has put it back.
C1_NoDoubleUse == \A r \in RegionIds : Cardinality(HeldBy(r)) <= 1

\* a region that went through the queue is handed out again while another
\* call in flight holds another region
C1_Witness ==
    /\ last.op \in Acquisitions
    /\ last.dq # NULL /\ last.list = last.dq
    /\ \E r \in InFlight : r # last.list

\* C2: teardown completeness.  After cuDestroyStream has returned, with no
\* driver call having failed, every pinned buffer ever handed out by
\* cuMemAllocHost has been released with cuMemFreeHost exactly once, and the
\* free queue and the allocated-region list are empty.
C2_TeardownComplete ==
    (last.op = "destroy" /\ nfail = 0) =>
        /\ \A b \in BufIds : buf[b].state # "none" =>
               (buf[b].frees = 1 /\ buf[b].state = "freed")
        /\ front = NULL
        /\ head = NULL

\* C3: registry invariant.  Before teardown, every region that is in the free
\* queue or held by a call in flight is reachable from head.
C3_RegistryInvariant ==
    ~torn => (Queued \cup InFlight) \subseteq Registry

\* C4: release only after device completion.  A region is never in the free
\* queue while work issued on a stream, or a blocked caller, still refers to
\* it; a host-to-device transfer returns with its region out of the queue.
C4_ReleaseAfterCompletion ==
    /\ Queued \cap InFlight = {}
    /\ (last.op \in {"htodBlocking", "htodAsync"} /\ last.list # NULL)
           => last.list \notin Queued

\* set_to_unused has just put back the region of a host-to-device transfer
\* whose copy the device has executed
C4_Witness ==
    /\ last.op = "cb" /\ last.list # NULL
    /\ last.list \in Queued
    /\ ~Pending(last.s, last.call, "copyHD")
    /\ expect[1].s = last.s

\* C6: growth correctness.  When the queue holds only a region of capacity
\* m and an acquisition of size n > m succeeds, the same region is returned,
\* its length is n, its buffer has room for n bytes, and its old buffer has
\* been released exactly once; a buffer released by a growth is never
\* released again.
C6_GrowthCorrect ==
    /\ (/\ last.op \in Acquisitions
        /\ last.dq # NULL /\ last.qseq = <<last.dq>>
        /\ last.oldlen < last.size
        /\ ~last.acqFail)
       => /\ last.list = last.dq
          /\ area[last.list].length = last.size
          /\ area[last.list].staging_area \in BufIds \ {last.oldbuf}
          /\ buf[area[last.list].staging_area].state = "live"
          /\ buf[area[last.list].staging_area].size >= last.size
          /\ buf[last.oldbuf].frees = 1
          /\ buf[last.oldbuf].state = "freed"
    /\ \A b \in BufIds : buf[b].regrown => buf[b].frees = 1

\* an acquisition has just grown the only region of the queue
C6_Witness ==
    /\ last.op \in Acquisitions
    /\ last.dq # NULL /\ last.qseq = <<last.dq>>
    /\ last.oldlen < last.size
    /\ ~last.acqFail
    /\ buf[last.oldbuf].regrown

\* C7: FIFO fairness.  The queue holds the regions in the order in which
\* they were enqueued, and an acquisition receives the region that was
\* enqueued first.
C7_Fifo ==
    /\ QueueSeq = fifo
    /\ last.op \in Acquisitions => last.dq = last.oldest

\* two regions were idle, released one after the other, and the acquisition
\* received the one released first
C7_Witness ==
    /\ last.op \in Acquisitions
    /\ Len(last.qseq) >= 2
    /\ last.qseq[1] # NULL /\ last.qseq[2] # NULL /\ last.qseq[1] # last.qseq[2]
    /\ last.dq = last.qseq[1]
    /\ QueueSeq = Tail(last.qseq)

\* C10: acquire failure aborts the transfer.  When get_first_free_staging_area
\* returns no region, the transfer does not dereference the region, issues no
\* device copy and registers no callback.
C10_AcquireFailureAborts ==
    (last.op \in Acquisitions /\ last.acqFail) =>
        (~last.deref /\ ~last.copy /\ ~last.cb)

\* C8: blocking transfer visibility.  When transferFromDeviceToHostBlock
\* returns, the after-event has completed, the region is back in the free
\* queue, and the caller's destination holds the bytes the device copy
\* produced.
C8_BlockingVisibility ==
    (last.op = "dtohReturn" /\ last.copy) =>
        /\ last.evdone
        /\ last.list \in Queued
        /\ last.array = last.data

\* C9: round trip.  A blocking device-to-host copy from an address, of the
\* length of the pattern last sent to that address by a host-to-device copy
\* on the same stream, leaves that pattern in a fresh destination.
C9_RoundTrip ==
    (/\ last.op = "dtohReturn" /\ last.copy
     /\ expect[last.addr].s = last.s
     /\ Len(expect[last.addr].pat) = last.size)
    => last.array = expect[last.addr].pat

\* both threads have returned
RaceDone == rc.on /\ rc.cpc = "done" /\ rc.apc = "done"

\* C5: concurrent release safety.  When a callback releasing a region runs
\* concurrently with an acquisition, statement by statement, nothing
\* undefined happens, and once both have returned the queue is what one of
\* the two orders of release and acquisition leaves: the acquisition received
\* the region at the front (or none, the queue being empty), and the queue
\* holds every other region once, the released region last.
C5_ConcurrentReleaseSafe ==
    /\ rc.on => (th.pc # "crashed" /\ ~rc.ub)
    /\ RaceDone =>
         LET full == rc.q0 \o <<rc.creg>> IN
         \/ rc.areg = NULL /\ rc.q0 = <<>> /\ QueueSeq = full
         \/ rc.areg = Head(full) /\ QueueSeq = Tail(full)

\* the region's struct is allocated and its staging area is a pinned buffer
\* that has not been released
Sound(r) ==
    /\ area[r].alive
    /\ area[r].staging_area \in BufIds
    /\ buf[area[r].staging_area].state = "live"

\* C11: allocation failure does not corrupt pool state.  Immediately after an
\* acquisition that failed, every region in the free queue and every region
\* reachable from head has a pinned buffer that was allocated and has not
\* been released.
C11_FailureKeepsPoolSound ==
    (last.op \in Acquisitions /\ last.acqFail) =>
        \A r \in Queued \cup Registry : Sound(r)

\* C12: never leaked, never double-freed.  Every pinned buffer has been passed
\* to cuMemFreeHost at most once, and every region that holds a pinned buffer
\* is reachable from head, where free_staging_area_list will find it.
C12_NoLeakNoDoubleFree ==
    /\ \A b \in BufIds : buf[b].frees <= 1
    /\ \A r \in RegionIds : Sound(r) => r \in Registry

\* the steps in which a transfer returns to its caller
Returns == {"htodBlocking", "htodAsync", "dtohReturn", "dtohAsync"}

\* the values a transfer returns when every driver call succeeded
EventBrackets ==
    {wrapper_from_events(Event(c, "evB"), Event(c, "evA")) : c \in 1..MaxCalls}

\* C13: failure reporting.  Whenever the device copy of a transfer reported a
\* non-success status, or its acquisition failed on a driver call, the value
\* the transfer returns is none of the values returned on success.
C13_FailureReported ==
    (/\ last.op \in Returns
     /\ th.pc # "crashed"
     /\ (last.status # CUDA_SUCCESS \/ last.acqFail))
        => last.bracket \notin EventBrackets

\* C14: destroy status propagation.  The status cuDestroyStream returns is
\* non-success whenever cuStreamDestroy or any cuMemFreeHost of the pool
\* teardown reported non-success.
C14_DestroyStatus ==
    (last.op = "destroy" /\ last.failed) => last.ret # CUDA_SUCCESS

\* C15: releaseAll idempotence.  The pool teardown of cuDestroyStream passes
\* the buffer of every registered region to cuMemFreeHost once (the buffer is
\* released unless the driver reports a failure) and leaves head NULL; run
\* when the registry and the free queue are already empty it releases no
\* buffer and changes no pool state.
C15_ReleaseAllIdempotent ==
    [][last'.op = "destroy" =>
          /\ head' = NULL /\ front' = NULL
          /\ \A r \in Registry :
                 LET b == area[r].staging_area IN
                 b \in BufIds =>
                     /\ buf'[b].frees = buf[b].frees + 1
                     /\ ~last'.failed => buf'[b].state = "freed"
          /\ head = NULL => (area' = area /\ buf' = buf)
          /\ (head = NULL /\ front = NULL) =>
                 UNCHANGED <<head, front, rear, qnode, area, buf>>]_vars

\* teardown has run again after an earlier teardown released a buffer
C15_Witness ==
    /\ last.op = "destroy" /\ last.again
    /\ \E b \in BufIds : buf[b].frees = 1 /\ buf[b].state = "freed"

\* ------------------------------------------------------------ fairness
\* The device runs the work issued on a stream, and the driver's notification
\* thread runs a callback once the work issued before it has completed:
\* neither waits for the application.
Fairness ==
    \A s \in PoolStreams : WF_vars(DeviceStep(s)) /\ WF_vars(set_to_unused(s))

SpecLive == Init /\ [][Next]_vars /\ Fairness

\* C16: eventual recycling.  Under fairness of the device and its notification
\* thread, every region a host-to-device transfer acquired is eventually in
\* the free queue again, unless the process has ended.
C16_EventualRecycling ==
    \A r \in RegionIds :
        (/\ last.op \in {"htodBlocking", "htodAsync"}
         /\ th.pc # "crashed"
         /\ last.list = r)
            ~> (r \in Queued \/ th.pc = "crashed")

\* C17: host-to-device mode equivalence.  From the same state and with the
\* same arguments transferFromHostToDeviceBlocking and
\* transferFromHostToDeviceAsync issue the same work on the stream (begin
\* event, copy, end event, release callback), and both return the event
\* bracket with the application thread idle: neither waits on an event.
C17_ModeEquivalence ==
    (last.op \in {"htodBlocking", "htodAsync"} /\ th.pc # "crashed") =>
        /\ last.work = last.other
        /\ th.pc = "idle"
        /\ last.bracket = TransferReturn(last.call, CUDA_SUCCESS)
        /\ Pending(last.s, last.call, "evA")

\* a transfer of either mode has returned with its copy and its callback
\* issued and still to run
C17_Witness ==
    /\ last.op = "htodAsync"
    /\ th.pc = "idle"
    /\ Pending(last.s, last.call, "copyHD")
    /\ Pending(last.s, last.call, "cb")
    /\ last.dq # NULL

\* C18: non-blocking device-to-host uses no staging region.
\* transferFromDeviceToHostAsync leaves front, rear, the queue's nodes, head
\* and every region's buffer and capacity as they were, and returns the event
\* bracket with the after event still to run: it does not wait.
C18_AsyncFrame ==
    [][last'.op = "dtohAsync" =>
          /\ UNCHANGED <<head, front, rear, qnode, area, buf>>
          /\ th' = th /\ th'.pc = "idle"
          /\ last'.bracket = TransferReturn(last'.call, CUDA_SUCCESS)
          /\ \E i \in 1..Len(stream'[last'.s]) :
                 /\ stream'[last'.s][i].call = last'.call
                 /\ stream'[last'.s][i].k = "evA"]_vars

\* a non-blocking device-to-host transfer has returned while a region is
\* registered, another is in the free queue and its own copy is still to run
C18_Witness ==
    /\ last.op = "dtohAsync"
    /\ head # NULL /\ Queued # {}
    /\ Pending(last.s, last.call, "copyDirect")
    /\ Pending(last.s, last.call, "evA")

\* C19: drainAll frame.  free_queue leaves front NULL, frees nodes of the
\* queue only, and assigns nothing else: head, every region's struct, buffer
\* and capacity, and every pinned buffer are as before, whether the regions
\* are queued, in flight or lost.  After cuDestroyStream the queue is empty.
C19_DrainFrame ==
    /\ LET p == after_free_queue(head, front, rear, qnode, area, buf) IN
           /\ p.front = NULL
           /\ \A n \in NodeIds : p.qnode[n] # qnode[n] =>
                  qnode[n].alive /\ p.qnode[n] = NoNode
           /\ front # NULL => p.qnode[front] = NoNode
           /\ p.head = head /\ p.area = area /\ p.buf = buf /\ p.rear = rear
    /\ last.op = "destroy" => front = NULL

\* teardown drained a queue holding a region that teardown did not release:
\* its buffer is as it was
C19_Witness ==
    /\ last.op = "destroy"
    /\ \E i \in 1..Len(last.qseq) :
          /\ last.qseq[i] \in RegionIds
          /\ area[last.qseq[i]].alive
          /\ buf[area[last.qseq[i]].staging_area].state = "live"
          /\ buf[area[last.qseq[i]].staging_area].frees = 0

C25_CapacityMonotone ==
    [][/\ \A r \in RegionIds :
              (area[r].alive /\ area'[r].alive) => area'[r].length >= area[r].length
       /\ (last'.op \in Acquisitions /\ ~last'.acqFail) =>
              /\ area'[last'.list].length =
                     IF last'.oldlen >= last'.size THEN last'.oldlen ELSE last'.size
              /\ (last'.dq # NULL /\ last'.oldlen >= last'.size) =>
                     /\ last'.list = last'.dq
                     /\ area'[last'.list].staging_area = last'.oldbuf
                     /\ buf'[last'.oldbuf].state = "live"
                     /\ buf'[last'.oldbuf].frees = buf[last'.oldbuf].frees
                     /\ buf'[last'.oldbuf].size = buf[last'.oldbuf].size]_vars

\* a region of length MaxLen was taken from the queue for a smaller transfer
\* and kept its length and its buffer
C25_Witness ==
    /\ last.op \in Acquisitions /\ ~last.acqFail
    /\ last.dq # NULL /\ last.list = last.dq
    /\ last.size < last.oldlen
    /\ area[last.list].length = last.oldlen
    /\ area[last.list].staging_area = last.oldbuf

\* the regions created and not yet freed
Created == {r \in RegionIds : area[r].alive}

\* C24: region conservation.  With no driver failure and before teardown,
\* every region created is either in the free queue exactly once and held
\* by no call, or held by exactly one call in flight and not in the queue;
\* the number of regions created is the length of the queue plus the number
\* of regions in flight.  A region is created only in a step after which
\* every region created is in flight, so the number created never exceeds
\* the largest number of transfers that held a region at the same time.
C24_RegionConservation ==
    [][(nfail' = 0 /\ ~torn') =>
          /\ \A r \in Created' :
                 LET inq == Cardinality({i \in 1..Len(QueueSeq') : QueueSeq'[i] = r})
                     held == Cardinality(HeldBy(r)')
                 IN  (inq = 1 /\ held = 0) \/ (inq = 0 /\ held = 1)
          /\ Cardinality(Created') = Len(QueueSeq') + Cardinality(InFlight')
          /\ Cardinality(Created') > Cardinality(Created) =>
                 /\ Created' = InFlight'
                 /\ QueueSeq' = <<>>]_vars

\* MaxRegions regions have been created, one is in the queue and another is
\* held by a transfer in flight
C24_Witness ==
    /\ nfail = 0 /\ ~torn
    /\ Cardinality(Created) = MaxRegions
    /\ Queued # {} /\ InFlight # {}
    /\ last.op \in Acquisitions /\ last.dq # NULL

\* C26: no use of a freed buffer.  With cuDestroyStream called only when no
\* transfer is in flight and no callback is pending, every region in the free
\* queue has an allocated struct and a pinned buffer that has not been
\* released, and so has every region get_first_free_staging_area returns,
\* also after teardown and in the transfers that follow it.
C26_NoFreedBuffer ==
    /\ \A r \in Queued : Sound(r)
    /\ (last.op \in Acquisitions /\ ~last.acqFail) => Sound(last.list)

\* after a teardown that released a buffer, a region created since then has
\* been through the queue and is handed out again
C26_Witness ==
    /\ torn
    /\ \E b \in BufIds : buf[b].state = "freed"
    /\ last.op \in Acquisitions /\ ~last.acqFail
    /\ last.dq # NULL /\ last.list = last.dq

\* the place of a piece of work in the bracket of its call: the before
\* event, the device operation, the after event, the release callback
Rank(k) ==
    CASE k = "evB" -> 1
      [] k \in {"copyHD", "copyDH", "copyDirect", "kernel"} -> 2
      [] k = "evA" -> 3
      [] k = "cb" -> 4

\* the steps in which a call issues its bracket on a stream
Issues == Acquisitions \cup {"dtohAsync", "launch"}

\* C21: event bracket ordering.  On every stream the work of one call is
\* contiguous and in the order before event, device operation, after event,
\* release callback, each at most once, and the events of a call are its own;
\* a call that has just issued its bracket has both events on the stream with
\* nothing but its device operation between them.  So an after event that
\* has completed implies the bracketed operation has run.
C21_BracketOrdering ==
    /\ \A s \in Streams : \A i, j \in 1..Len(stream[s]) :
           i < j =>
               /\ stream[s][i].call <= stream[s][j].call
               /\ stream[s][i].call = stream[s][j].call =>
                      Rank(stream[s][i].k) < Rank(stream[s][j].k)
    /\ (last.op \in Issues /\ th.pc # "crashed") =>
           \E i, j \in 1..Len(stream[last.s]) :
               /\ stream[last.s][i] = Op("evB", last.call, NULL, NULL, 0, 0)
               /\ stream[last.s][j] = Op("evA", last.call, NULL, NULL, 0, 0)
               /\ i < j /\ j <= i + 2
               /\ \A m \in (i + 1)..(j - 1) :
                      stream[last.s][m].call = last.call /\ Rank(stream[last.s][m].k) = 2
               /\ \A m \in 1..(i - 1) : stream[last.s][m].call < last.call
    /\ (last.op \in Returns \cup {"launch"} /\ th.pc # "crashed") =>
           last.bracket = wrapper_from_events(Event(last.call, "evB"), Event(last.call, "evA"))

\* a kernel launch has issued its bracket behind the copy and the callback
\* of a host-to-device transfer still to run
C21_Witness ==
    /\ last.op = "launch"
    /\ Pending(last.s, last.call, "kernel")
    /\ \E c \in 1..MaxCalls :
           /\ c < last.call
           /\ Pending(last.s, c, "copyHD")
           /\ Pending(last.s, c, "cb")

\* C23: synchronize quiesces the pool.  After cuStreamSynchronize has
\* returned CUDA_SUCCESS (and before any teardown) nothing issued on the
\* stream is still to run, no region is held by a call in flight, and every
\* region created is in the free queue.
C23_SynchronizeQuiesces ==
    (last.op = "sync" /\ last.ret = CUDA_SUCCESS /\ ~torn) =>
        /\ stream[last.s] = <<>>
        /\ InFlight = {}
        /\ Created \subseteq Queued

\* the calls with work still to run on a stream other than s that refers to
\* region r
HeldElsewhere(r, s) ==
    UNION {{stream[z][i].call : i \in {j \in 1..Len(stream[z]) :
                                          stream[z][j].list = r}} : z \in Streams \ {s}}

\* C22: no cross-stream aliasing.  With two streams in use, after
\* cuDestroyStream on a stream with nothing in flight every region that work
\* on the other stream still refers to has its struct and its pinned buffer,
\* and a region acquired by a transfer on one stream is never one that work
\* still to run on the other stream refers to.
C22_NoCrossStreamAliasing ==
    /\ last.op = "destroy" =>
           \A r \in RegionIds : HeldElsewhere(r, last.s) # {} => Sound(r)
    /\ (last.op \in Acquisitions /\ ~last.acqFail) =>
           HeldElsewhere(last.list, last.s) = {}

=============================================================================
